---- MODULE Spec2Model ----
(***************************************************************************)
(* Model of alphahuman_langgraph.tools: the tool factory make_memory_tools, *)
(* the environment accessor get_tools and the three tools the factory       *)
(* returns (ingest, read, delete), each a translator between plain          *)
(* dictionaries and the requests/responses of the memory client.            *)
(*                                                                          *)
(* Python values are encoded as follows.                                    *)
(*   str                 a TLA+ string                                      *)
(*   Optional[T]         None is the empty set, a value v is Some(v) = {v}  *)
(*   list                a sequence                                         *)
(*   dict (item)         a function whose DOMAIN is the set of its keys     *)
(*   dict (metadata)     a set of <<key, value>> pairs                      *)
(*   os.environ          a function from the two variable names to          *)
(*                       Optional[str]; None is an unset variable           *)
(* The memory client (alphahuman_memory) is an external collaborator: each  *)
(* of its operations answers with a response or raises, chosen by the       *)
(* environment.                                                             *)
(***************************************************************************)
EXTENDS Naturals, Sequences, FiniteSets

VARIABLES
    env,        \* os.environ restricted to the two variables the code reads
    clients,    \* every AlphahumanMemoryClient constructed so far: its config
    toolsets,   \* every tool list returned so far: its client and its tools
    last        \* the last factory call or tool invocation, with its outcome

vars == <<env, clients, toolsets, last>>

----------------------------------------------------------------------------
\* Bounds of the model.

\* factory calls that construct a client
MaxClients == 2
\* length of the items list given to ingest
MaxItems == 2
\* length of the keys list given to read and delete
MaxKeys == 1
\* number of items in a read response
MaxRespItems == 2

----------------------------------------------------------------------------
\* Python values.

None == {}
Some(v) == {v}
\* the value inside a non-None optional
The(o) == CHOOSE v \in o : TRUE

\* bool(o) for o: Optional[str]
Truthy(o) == o # None /\ o # Some("")

\* a or b, on Optional[str]
Or(a, b) == IF Truthy(a) THEN a ELSE b

Range(s) == {s[i] : i \in 1..Len(s)}

\* sequences over S of length at most n
SeqUpTo(S, n) == UNION {[1..k -> S] : k \in 0..n}

----------------------------------------------------------------------------
\* Module constants.

_TOKEN_ENV == "ALPHAHUMAN_API_KEY"
_BASE_URL_ENV == "ALPHAHUMAN_BASE_URL"
\* imported from alphahuman_memory.types: a fixed, non-empty URL (the value
\* itself is the library's; any non-empty string distinct from the inputs does)
DEFAULT_BASE_URL == "https://staging.default"

\* os.environ.get(name)
EnvGet(e, name) == e[name]

\* os.environ.get(name, default)
EnvGetDefault(e, name, default) == IF e[name] = None THEN default ELSE The(e[name])

----------------------------------------------------------------------------
\* The factory.

\* base_url or os.environ.get(_BASE_URL_ENV) or DEFAULT_BASE_URL
\* (faulty variant: the environment variable is not consulted)
mutResolveArgOnly(e, base_url) == Or(base_url, Some(DEFAULT_BASE_URL))
ResolveBaseUrl(e, base_url) ==
    Or(Or(base_url, EnvGet(e, _BASE_URL_ENV)), Some(DEFAULT_BASE_URL))

\* AlphahumanConfig(token=token, base_url=resolved_base_url)
AlphahumanConfig(token, base_url) == [token |-> token, base_url |-> base_url]

\* the parameters each @tool function declares
\* (faulty variant: ingest also declares a token parameter)
mutToolsWithToken ==
    << [name |-> "alphahuman_ingest_memory", params |-> <<"items", "token">>],
       [name |-> "alphahuman_read_memory", params |-> <<"key", "keys", "namespace">>],
       [name |-> "alphahuman_delete_memory",
        params |-> <<"key", "keys", "namespace", "delete_all">>] >>
ToolList ==
    << [name |-> "alphahuman_ingest_memory", params |-> <<"items">>],
       [name |-> "alphahuman_read_memory", params |-> <<"key", "keys", "namespace">>],
       [name |-> "alphahuman_delete_memory",
        params |-> <<"key", "keys", "namespace", "delete_all">>] >>

Returned(v) == [kind |-> "return", value |-> v]
Raised(exc) == [kind |-> "raise", exc |-> exc]

FactoryOps == {"make_memory_tools", "get_tools"}
ToolNames == {ToolList[i].name : i \in 1..Len(ToolList)}

\* get_tools takes no argument
NoArgs == [argc |-> 0]

\* One record of `last`. `repeat` tells that the operation before it was the
\* same operation, on the same tool list, with the same arguments.
Record(op, ts, args, calls, outcome) ==
    [op |-> op, toolset |-> ts, args |-> args, calls |-> calls,
     outcome |-> outcome,
     repeat |-> (last.op = op /\ last.toolset = ts /\ last.args = args)]

\* The state change of the body of make_memory_tools(token, base_url), entered
\* from `op`: one client is constructed, and one tool list closing over it
\* is returned.
Construct(op, args, token, base_url) ==
    LET cfg == AlphahumanConfig(token, ResolveBaseUrl(env, base_url))
        c == Len(clients) + 1
        ts == Len(toolsets) + 1
    IN  /\ clients' = Append(clients, cfg)
        /\ toolsets' = Append(toolsets, [client |-> c, tools |-> ToolList])
        /\ last' = Record(op, ts, args, <<>>, Returned(ToolList))
        /\ UNCHANGED env

make_memory_tools(token, base_url) ==
    /\ Len(clients) < MaxClients
    /\ Construct("make_memory_tools",
                 [token |-> token, base_url |-> base_url], token, base_url)

\* `not token`, for token: str
\* (faulty variant: `token is None`, never true with the "" default)
mutTokenIsNone(token) == FALSE
TokenMissing(token) == token = ""

\* the message of the ValueError of get_tools, as the parts of its f-string
MissingTokenMessage ==
    <<"Set the ", _TOKEN_ENV,
      " environment variable or use make_memory_tools(token=...)">>

get_tools ==
    LET token == EnvGetDefault(env, _TOKEN_ENV, "")
        base_url == Or(EnvGet(env, _BASE_URL_ENV), None)
    IN  IF TokenMissing(token)
        THEN /\ last' = Record("get_tools", 0, NoArgs, <<>>,
                               Raised([type |-> "ValueError",
                                       arg |-> MissingTokenMessage]))
             /\ UNCHANGED <<env, clients, toolsets>>
        ELSE /\ Len(clients) < MaxClients
             /\ Construct("get_tools", NoArgs, token, base_url)

\* The process environment is changed from outside the library: a variable is
\* set to a new value, or unset (None).
SetEnv(name, value) ==
    /\ value # env[name]
    /\ env' = [env EXCEPT ![name] = value]
    /\ UNCHANGED <<clients, toolsets, last>>

----------------------------------------------------------------------------
\* The client calls of a tool.

\* the client the tools of tool list ts close over
ClientOf(ts) == toolsets[ts].client

\* the configuration the closed-over client sends a request with
\* (faulty variant: the base URL is resolved again at call time)
mutConfigFromEnv(ts) ==
    AlphahumanConfig(clients[ClientOf(ts)].token, ResolveBaseUrl(env, None))
ConfigOf(ts) == clients[ClientOf(ts)]

\* client.<op>(request), answered with `answer` by the client
ClientCall(ts, op, request, answer) ==
    [client |-> ClientOf(ts), op |-> op, request |-> request,
     token |-> ConfigOf(ts).token, base_url |-> ConfigOf(ts).base_url,
     answer |-> answer]

\* the client calls a tool body makes for its one `client.<op>(...)` expression
\* (faulty variant: a failed call is issued a second time)
mutRetryOnError(call) ==
    IF call.answer.kind = "error" THEN <<call, call>> ELSE <<call>>
CallOnce(call) == <<call>>

Ok(result) == [kind |-> "ok", value |-> result]
Error(exc) == [kind |-> "error", exc |-> exc]

\* what a client operation may raise
ClientErrors ==
    { [type |-> "NetworkError", arg |-> "connection refused"],
      [type |-> "APIError", arg |-> "500"] }

----------------------------------------------------------------------------
\* alphahuman_ingest_memory

EmptyMap == {}

\* item.get(k, default)
\* (faulty variant: `item.get(k) or default`, which also replaces "")
mutDictGetOr(item, k, default) ==
    IF k \in DOMAIN item /\ ~(k = "namespace" /\ item[k] = "")
    THEN item[k] ELSE default
DictGet(item, k, default) == IF k \in DOMAIN item THEN item[k] ELSE default

\* The subscript of item["key"], item["content"] that raises KeyError, in
\* the order the arguments of MemoryItem(...) are evaluated; None when
\* both are present.
MissingField(item) ==
    IF "key" \notin DOMAIN item THEN Some("key")
    ELSE IF "content" \notin DOMAIN item THEN Some("content")
    ELSE None

\* MemoryItem(key=..., content=..., namespace=..., metadata=...)
MemoryItem(key, content, namespace, metadata) ==
    [key |-> key, content |-> content, namespace |-> namespace,
     metadata |-> metadata]

\* one element of the list comprehension, for an item that has both fields
ToMemoryItem(item) ==
    MemoryItem(item["key"], item["content"],
               DictGet(item, "namespace", "default"),
               DictGet(item, "metadata", EmptyMap))

\* The index of the first item whose conversion raises, 0 when none does:
\* the comprehension converts the items in list order.
FirstBad(items) ==
    LET bad == {i \in 1..Len(items) : MissingField(items[i]) # None}
    IN  IF bad = {} THEN 0 ELSE CHOOSE i \in bad : \A j \in bad : i <= j

\* IngestMemoryRequest(items=memory_items)
IngestMemoryRequest(memory_items) == [items |-> memory_items]

\* The client calls of one ingest: the comprehension completes before
\* client.ingest_memory is reached, so a KeyError leaves no call.
\* (faulty variant: the well-formed items before the bad one are sent)
mutIngestSendsPrefix(ts, items, answer) ==
    LET bad == FirstBad(items)
        n == IF bad = 0 THEN Len(items) ELSE bad - 1
    IN  IF bad = 1 THEN <<>>
        ELSE CallOnce(ClientCall(ts, "ingest_memory",
                 IngestMemoryRequest([i \in 1..n |-> ToMemoryItem(items[i])]),
                 answer))
IngestCalls(ts, items, answer) ==
    IF FirstBad(items) # 0 THEN <<>>
    ELSE CallOnce(ClientCall(ts, "ingest_memory",
             IngestMemoryRequest(
                 [i \in 1..Len(items) |-> ToMemoryItem(items[i])]),
             answer))

\* {"ingested": result.ingested, "updated": result.updated, "errors": result.errors}
IngestReturn(result) ==
    [ingested |-> result.ingested, updated |-> result.updated,
     errors |-> result.errors]

\* The outcome of a tool body whose client calls were `calls`: the client's
\* exception propagates, otherwise the body returns ret(result).
RaisedBy(calls) == Raised(calls[Len(calls)].answer.exc)
Failed(calls) == calls # <<>> /\ calls[Len(calls)].answer.kind = "error"
ResultOf(calls) == calls[Len(calls)].answer.value

alphahuman_ingest_memory(ts, items, answer) ==
    LET bad == FirstBad(items)
        calls == IngestCalls(ts, items, answer)
        outcome ==
            IF bad # 0
            THEN Raised([type |-> "KeyError",
                         arg |-> The(MissingField(items[bad]))])
            ELSE IF Failed(calls) THEN RaisedBy(calls)
            ELSE Returned(IngestReturn(ResultOf(calls)))
    IN  /\ last' = Record("alphahuman_ingest_memory", ts, [items |-> items],
                          calls, outcome)
        /\ UNCHANGED <<env, clients, toolsets>>

----------------------------------------------------------------------------
\* alphahuman_read_memory

\* ReadMemoryRequest(key=key, keys=keys, namespace=namespace)
\* (faulty variant: an absent namespace becomes "default")
mutReadDefaultNamespace(key, keys, namespace) ==
    [key |-> key, keys |-> keys,
     namespace |-> IF namespace = None THEN Some("default") ELSE namespace]
ReadMemoryRequest(key, keys, namespace) ==
    [key |-> key, keys |-> keys, namespace |-> namespace]

\* one element of "items": the six attributes of a response item
ItemDict(item) ==
    [key |-> item.key, content |-> item.content, namespace |-> item.namespace,
     metadata |-> item.metadata, created_at |-> item.created_at,
     updated_at |-> item.updated_at]

\* {"items": [... for item in result.items], "count": result.count}
\* (faulty variant: count is recomputed as len(items))
mutReadCountsItems(result) ==
    [items |-> [i \in 1..Len(result.items) |-> ItemDict(result.items[i])],
     count |-> Len(result.items)]
ReadReturn(result) ==
    [items |-> [i \in 1..Len(result.items) |-> ItemDict(result.items[i])],
     count |-> result.count]

alphahuman_read_memory(ts, key, keys, namespace, answer) ==
    LET calls == CallOnce(ClientCall(ts, "read_memory",
                     ReadMemoryRequest(key, keys, namespace), answer))
        outcome == IF Failed(calls) THEN RaisedBy(calls)
                   ELSE Returned(ReadReturn(ResultOf(calls)))
    IN  /\ last' = Record("alphahuman_read_memory", ts,
                          [key |-> key, keys |-> keys, namespace |-> namespace],
                          calls, outcome)
        /\ UNCHANGED <<env, clients, toolsets>>

----------------------------------------------------------------------------
\* alphahuman_delete_memory

\* DeleteMemoryRequest(key=key, keys=keys, namespace=namespace, delete_all=delete_all)
\* (faulty variant: delete_all is dropped when a key filter is given)
mutDeleteGuarded(key, keys, namespace, delete_all) ==
    [key |-> key, keys |-> keys, namespace |-> namespace,
     delete_all |-> (delete_all /\ key = None /\ keys = None)]
DeleteMemoryRequest(key, keys, namespace, delete_all) ==
    [key |-> key, keys |-> keys, namespace |-> namespace,
     delete_all |-> delete_all]

\* {"deleted": result.deleted}
DeleteReturn(result) == [deleted |-> result.deleted]

alphahuman_delete_memory(ts, key, keys, namespace, delete_all, answer) ==
    LET calls == CallOnce(ClientCall(ts, "delete_memory",
                     DeleteMemoryRequest(key, keys, namespace, delete_all),
                     answer))
        outcome == IF Failed(calls) THEN RaisedBy(calls)
                   ELSE Returned(DeleteReturn(ResultOf(calls)))
    IN  /\ last' = Record("alphahuman_delete_memory", ts,
                          [key |-> key, keys |-> keys, namespace |-> namespace,
                           delete_all |-> delete_all],
                          calls, outcome)
        /\ UNCHANGED <<env, clients, toolsets>>

----------------------------------------------------------------------------
\* Inputs.

\* values of the two environment variables
TokenEnvValues == {None, Some(""), Some("tok-env")}
BaseUrlEnvValues == {None, Some(""), Some("https://env.example")}
EnvValues(name) == IF name = _TOKEN_ENV THEN TokenEnvValues ELSE BaseUrlEnvValues

\* arguments of make_memory_tools
TokenArgs == {"tok-arg"}
BaseUrlArgs == {None, Some(""), Some("https://arg.example")}

\* the item dict with the given entries; None leaves the entry out
DictOf(key, content, namespace, metadata) ==
    LET present == {<<"key", key>>, <<"content", content>>,
                    <<"namespace", namespace>>, <<"metadata", metadata>>}
    IN  [f \in {p[1] : p \in {q \in present : q[2] # None}} |->
            CASE f = "key" -> The(key)
              [] f = "content" -> The(content)
              [] f = "namespace" -> The(namespace)
              [] f = "metadata" -> The(metadata)]

Metadata1 == {<<"source", "chat">>}

ItemDicts ==
    {DictOf(k, c, n, m) :
        k \in {None, Some("k1"), Some("k2")}, c \in {None, Some("c1")},
        n \in {None, Some(""), Some("ns1")},
        m \in {None, Some(Metadata1)}}
ItemLists == SeqUpTo(ItemDicts, MaxItems)

IngestResults ==
    { [ingested |-> 1, updated |-> 0, errors |-> 0],
      [ingested |-> 0, updated |-> 1, errors |-> 2] }
IngestAnswers == {Ok(r) : r \in IngestResults} \cup {Error(e) : e \in ClientErrors}

KeyArgs == {None, Some("k1")}
KeysArgs == {None} \cup {Some(s) : s \in SeqUpTo({"k1", "k2"}, MaxKeys)}
NamespaceArgs == {None, Some("ns1")}

\* items of a read response, as the client returns them
ResponseItems ==
    { [key |-> "k1", content |-> "c1", namespace |-> "default",
       metadata |-> EmptyMap, created_at |-> "t1", updated_at |-> "t2"],
      [key |-> "k2", content |-> "c2", namespace |-> "ns1",
       metadata |-> Metadata1, created_at |-> "t3", updated_at |-> "t4"] }
ReadResults ==
    {[items |-> s, count |-> n] :
        s \in SeqUpTo(ResponseItems, MaxRespItems), n \in 0..MaxRespItems}
ReadAnswers == {Ok(r) : r \in ReadResults} \cup {Error(e) : e \in ClientErrors}

DeleteResults == {[deleted |-> n] : n \in 0..1}
DeleteAnswers == {Ok(r) : r \in DeleteResults} \cup {Error(e) : e \in ClientErrors}

\* the few inputs the tools are invoked with while the factory and the
\* environment vary
FewItemLists ==
    { <<DictOf(Some("k1"), Some("c1"), None, None)>>,
      <<DictOf(Some("k1"), Some("c1"), Some("ns1"), None),
        DictOf(Some("k1"), None, None, None)>> }
FewIngestAnswers ==
    {Ok([ingested |-> 1, updated |-> 0, errors |-> 0]),
     Error([type |-> "APIError", arg |-> "500"])}
FewReadAnswers ==
    {Ok([items |-> <<CHOOSE r \in ResponseItems : r.key = "k1">>, count |-> 1]),
     Error([type |-> "NetworkError", arg |-> "connection refused"])}
FewFilters ==
    {[key |-> None, namespace |-> None],
     [key |-> Some("k1"), namespace |-> Some("ns1")]}
FewDeleteAnswers ==
    {Ok([deleted |-> 1]), Error([type |-> "APIError", arg |-> "500"])}

----------------------------------------------------------------------------
\* The library in a process: the environment changes, tool lists are made by
\* either factory, and the tools of any list made so far are invoked.

Init ==
    /\ env = [n \in {_TOKEN_ENV, _BASE_URL_ENV} |-> None]
    /\ clients = <<>>
    /\ toolsets = <<>>
    /\ last = [op |-> "none", toolset |-> 0, args |-> NoArgs, calls |-> <<>>,
               outcome |-> Returned(<<>>), repeat |-> FALSE]

Next ==
    \/ \E name \in {_TOKEN_ENV, _BASE_URL_ENV} :
         \E value \in EnvValues(name) : SetEnv(name, value)
    \/ \E token \in TokenArgs, base_url \in BaseUrlArgs :
         make_memory_tools(token, base_url)
    \/ get_tools
    \/ \E ts \in 1..Len(toolsets), items \in FewItemLists,
          answer \in FewIngestAnswers :
         alphahuman_ingest_memory(ts, items, answer)
    \/ \E ts \in 1..Len(toolsets), filter \in FewFilters,
          answer \in FewReadAnswers :
         alphahuman_read_memory(ts, filter.key, None, filter.namespace, answer)
    \/ \E ts \in 1..Len(toolsets), filter \in FewFilters,
          answer \in FewDeleteAnswers :
         alphahuman_delete_memory(ts, filter.key, None, filter.namespace,
                                  TRUE, answer)

Spec == Init /\ [][Next]_vars

\* The tools of one tool list, made by make_memory_tools("tok-arg") with no
\* variable set, invoked with every input of the bounds.

InitTools ==
    /\ env = [n \in {_TOKEN_ENV, _BASE_URL_ENV} |-> None]
    /\ clients = <<AlphahumanConfig("tok-arg", ResolveBaseUrl(env, None))>>
    /\ toolsets = <<[client |-> 1, tools |-> ToolList]>>
    /\ last = [op |-> "make_memory_tools", toolset |-> 1,
               args |-> [token |-> "tok-arg", base_url |-> None],
               calls |-> <<>>, outcome |-> Returned(ToolList),
               repeat |-> FALSE]

\* no tool of the list has been invoked yet
Fresh == last.op \in FactoryOps

NextTools ==
    \/ /\ Fresh
       /\ \E items \in ItemLists, answer \in IngestAnswers :
            alphahuman_ingest_memory(1, items, answer)
    \/ /\ Fresh
       /\ \E key \in KeyArgs, keys \in KeysArgs, namespace \in NamespaceArgs,
             answer \in ReadAnswers :
            alphahuman_read_memory(1, key, keys, namespace, answer)
    \/ /\ Fresh
       /\ \E key \in KeyArgs, keys \in KeysArgs, namespace \in NamespaceArgs,
             delete_all \in BOOLEAN, answer \in DeleteAnswers :
            alphahuman_delete_memory(1, key, keys, namespace, delete_all, answer)

SpecTools == InitTools /\ [][NextTools]_vars

----------------------------------------------------------------------------
\* Properties of the tools, over every input of the bounds (SpecTools).

Ingest == "alphahuman_ingest_memory"
Read == "alphahuman_read_memory"
Delete == "alphahuman_delete_memory"

\* some item of the list lacks "key" or lacks "content"
HasMalformed(items) ==
    \E i \in 1..Len(items) :
        "key" \notin DOMAIN items[i] \/ "content" \notin DOMAIN items[i]

\* C1: an ingest whose items list holds an item without "key" or without
\* "content", at any position, fails with a KeyError and makes no client
\* call: no part of the batch is sent.
C1_MalformedItemFailsBeforeAnyCall ==
    (last.op = Ingest /\ HasMalformed(last.args.items)) =>
        /\ last.outcome.kind = "raise"
        /\ last.outcome.exc.type = "KeyError"
        /\ Len(last.calls) = 0

\* C1's case: a well-formed item followed by one without "content".
C1_Witness ==
    /\ last.op = Ingest
    /\ Len(last.args.items) = 2
    /\ {"key", "content"} \subseteq DOMAIN last.args.items[1]
    /\ "key" \in DOMAIN last.args.items[2]
    /\ "content" \notin DOMAIN last.args.items[2]
    /\ last.outcome.kind = "raise"

\* C4: an ingest of well-formed items forwards one batch with as many items
\* in the same order; each carries the dict's key and content, the dict's
\* namespace or "default" when it has none, and the dict's metadata or an
\* empty map when it has none.
C4_ItemsForwardedWithDefaults ==
    (last.op = Ingest /\ ~HasMalformed(last.args.items)) =>
        /\ Len(last.calls) = 1
        /\ LET items == last.args.items
               sent == last.calls[1].request.items
           IN  /\ Len(sent) = Len(items)
               /\ \A i \in 1..Len(items) :
                    /\ sent[i].key = items[i]["key"]
                    /\ sent[i].content = items[i]["content"]
                    /\ sent[i].namespace =
                         IF "namespace" \in DOMAIN items[i]
                         THEN items[i]["namespace"] ELSE "default"
                    /\ sent[i].metadata =
                         IF "metadata" \in DOMAIN items[i]
                         THEN items[i]["metadata"] ELSE {}

\* C4's case: an item with only the required fields, then one with its own
\* (empty) namespace and metadata, forwarded in that order.
C4_Witness ==
    /\ last.op = Ingest
    /\ Len(last.args.items) = 2
    /\ DOMAIN last.args.items[1] = {"key", "content"}
    /\ DOMAIN last.args.items[2] = {"key", "content", "namespace", "metadata"}
    /\ last.args.items[2]["namespace"] = ""
    /\ last.args.items[1]["key"] # last.args.items[2]["key"]
    /\ Len(last.calls) = 1
    /\ last.calls[1].request.items[1].namespace = "default"
    /\ last.calls[1].request.items[2].namespace = ""

\* C5: a read forwards one request whose key, keys and namespace are the
\* arguments, None included; with no filter it returns what the client
\* answered: every item, in order, and the count.
C5_ReadForwardsFiltersAsGiven ==
    last.op = Read =>
        /\ Len(last.calls) = 1
        /\ last.calls[1].op = "read_memory"
        /\ last.calls[1].request.key = last.args.key
        /\ last.calls[1].request.keys = last.args.keys
        /\ last.calls[1].request.namespace = last.args.namespace
        /\ DOMAIN last.calls[1].request = {"key", "keys", "namespace"}
        /\ ( ( /\ last.args.key = {} /\ last.args.keys = {}
               /\ last.args.namespace = {}
               /\ last.calls[1].answer.kind = "ok" ) =>
             LET r == last.calls[1].answer.value
             IN  /\ last.outcome.kind = "return"
                 /\ Len(last.outcome.value.items) = Len(r.items)
                 /\ \A i \in 1..Len(r.items) :
                      last.outcome.value.items[i].key = r.items[i].key
                 /\ last.outcome.value.count = r.count )

\* C5's case: a read with no filter, answered with two items.
C5_Witness ==
    /\ last.op = Read
    /\ last.args.key = {} /\ last.args.keys = {} /\ last.args.namespace = {}
    /\ last.calls[1].request.namespace = {}
    /\ last.outcome.kind = "return"
    /\ Len(last.outcome.value.items) = 2

\* C6: a delete forwards one request whose key, keys, namespace and
\* delete_all are the arguments, whatever their combination, and returns
\* the deleted count of the client's answer.
C6_DeleteForwardsArgumentsUnchecked ==
    last.op = Delete =>
        /\ Len(last.calls) = 1
        /\ last.calls[1].op = "delete_memory"
        /\ DOMAIN last.calls[1].request = {"key", "keys", "namespace", "delete_all"}
        /\ last.calls[1].request.key = last.args.key
        /\ last.calls[1].request.keys = last.args.keys
        /\ last.calls[1].request.namespace = last.args.namespace
        /\ last.calls[1].request.delete_all = last.args.delete_all
        /\ ( last.calls[1].answer.kind = "ok" =>
               /\ last.outcome.kind = "return"
               /\ DOMAIN last.outcome.value = {"deleted"}
               /\ last.outcome.value.deleted = last.calls[1].answer.value.deleted )

\* C6's case: conflicting filters, a key together with delete_all=True.
C6_Witness ==
    /\ last.op = Delete
    /\ last.args.key # {} /\ last.args.keys # {}
    /\ last.args.delete_all
    /\ last.calls[1].request.delete_all
    /\ last.outcome.kind = "return"

SixFields == {"key", "content", "namespace", "metadata", "created_at", "updated_at"}

\* C10: a read the client answers returns "items", one entry per response
\* item in order, each with exactly the six fields copied, and "count", the
\* response's count as it is.
C10_ReadResultCopiesItemsAndCount ==
    (last.op = Read /\ Len(last.calls) = 1 /\ last.calls[1].answer.kind = "ok") =>
        LET r == last.calls[1].answer.value
        IN  /\ last.outcome.kind = "return"
            /\ DOMAIN last.outcome.value = {"items", "count"}
            /\ Len(last.outcome.value.items) = Len(r.items)
            /\ \A i \in 1..Len(r.items) :
                 LET d == last.outcome.value.items[i]
                 IN  /\ DOMAIN d = SixFields
                     /\ d.key = r.items[i].key
                     /\ d.content = r.items[i].content
                     /\ d.namespace = r.items[i].namespace
                     /\ d.metadata = r.items[i].metadata
                     /\ d.created_at = r.items[i].created_at
                     /\ d.updated_at = r.items[i].updated_at
            /\ last.outcome.value.count = r.count

\* C10's case: two different items, and a count that is not their number.
C10_Witness ==
    /\ last.op = Read
    /\ last.outcome.kind = "return"
    /\ Len(last.outcome.value.items) = 2
    /\ last.outcome.value.items[1] # last.outcome.value.items[2]
    /\ last.outcome.value.count = 0

----------------------------------------------------------------------------
\* Properties of the factory and of the tools across calls (Spec).

Credentials == {"token", "base_url"}

\* the declared parameters of the tool named `name` in tool list ts
ParamsOf(ts, name) ==
    UNION {Range(toolsets[ts].tools[i].params) :
             i \in {j \in 1..Len(toolsets[ts].tools) :
                      toolsets[ts].tools[j].name = name}}

\* every client call of the last invocation went out with the token and the
\* base URL of the client its tool list was made with
CallsUseFactoryConfig ==
    \A j \in 1..Len(last.calls) :
        LET call == last.calls[j]
        IN  /\ call.client = toolsets[last.toolset].client
            /\ call.token = clients[call.client].token
            /\ call.base_url = clients[call.client].base_url

\* C2: whatever token and base URL a tool list was made with, its three
\* tools declare exactly {items}, {key, keys, namespace} and {key, keys,
\* namespace, delete_all}; no credential is a parameter, the arguments of an
\* invocation are those parameters, and its request goes out with the
\* factory's token and base URL.
C2_CredentialsAreNoToolParameter ==
    /\ \A ts \in 1..Len(toolsets) :
         /\ {toolsets[ts].tools[i].name : i \in 1..Len(toolsets[ts].tools)}
              = {Ingest, Read, Delete}
         /\ Len(toolsets[ts].tools) = 3
         /\ ParamsOf(ts, Ingest) = {"items"}
         /\ ParamsOf(ts, Read) = {"key", "keys", "namespace"}
         /\ ParamsOf(ts, Delete) = {"key", "keys", "namespace", "delete_all"}
         /\ \A i \in 1..3 :
              Range(toolsets[ts].tools[i].params) \cap Credentials = {}
    /\ last.op \in {Ingest, Read, Delete} =>
         /\ DOMAIN last.args = ParamsOf(last.toolset, last.op)
         /\ CallsUseFactoryConfig

\* C2's case: two tool lists made with different tokens and base URLs, and a
\* tool of the first one invoked.
C2_Witness ==
    /\ Len(toolsets) = 2
    /\ clients[1].token # clients[2].token
    /\ clients[1].base_url # clients[2].base_url
    /\ last.op = Read
    /\ last.toolset = 1
    /\ last.args.key # {}
    /\ Len(last.calls) = 1

\* C3: get_tools with ALPHAHUMAN_API_KEY unset or empty raises a ValueError
\* whose message names the variable, constructs no client and returns no
\* tool; with the variable non-empty it returns the three tools of a new
\* client configured with that token.
C3_GetToolsNeedsToken ==
    [][ (env' = env /\ last'.op = "get_tools") =>
          IF env["ALPHAHUMAN_API_KEY"] \in {{}, {""}}
          THEN /\ last'.outcome.kind = "raise"
               /\ last'.outcome.exc.type = "ValueError"
               /\ "ALPHAHUMAN_API_KEY" \in Range(last'.outcome.exc.arg)
               /\ clients' = clients
               /\ toolsets' = toolsets
          ELSE /\ last'.outcome.kind = "return"
               /\ {last'.outcome.value[i].name : i \in 1..Len(last'.outcome.value)}
                    = {Ingest, Read, Delete}
               /\ Len(clients') = Len(clients) + 1
               /\ Len(toolsets') = Len(toolsets) + 1
               /\ last'.toolset = Len(toolsets')
               /\ toolsets'[Len(toolsets')].client = Len(clients')
               /\ {clients'[Len(clients')].token} = env["ALPHAHUMAN_API_KEY"]
      ]_vars

\* C3's case: get_tools has failed with the variable set to the empty string,
\* after a tool list was made.
C3_Witness ==
    /\ last.op = "get_tools"
    /\ last.outcome.kind = "raise"
    /\ env["ALPHAHUMAN_API_KEY"] = {""}
    /\ Len(clients) = 1

\* the client operation each tool wraps
ClientOp(tool) ==
    CASE tool = Ingest -> "ingest_memory"
      [] tool = Read -> "read_memory"
      [] tool = Delete -> "delete_memory"

\* C7: an invocation makes at most one client call, of its own operation:
\* exactly one for read and delete, and for ingest exactly when every item
\* is well-formed; when the call raises, the invocation raises the same
\* error; an invocation repeated with the same arguments calls again.
C7_OneClientCallErrorsSurfaced ==
    last.op \in {Ingest, Read, Delete} =>
        /\ Len(last.calls) <= 1
        /\ last.op \in {Read, Delete} => Len(last.calls) = 1
        /\ last.op = Ingest =>
             (Len(last.calls) = 1 <=> ~HasMalformed(last.args.items))
        /\ \A j \in 1..Len(last.calls) : last.calls[j].op = ClientOp(last.op)
        /\ \A j \in 1..Len(last.calls) :
             IF last.calls[j].answer.kind = "error"
             THEN /\ last.outcome.kind = "raise"
                  /\ last.outcome.exc = last.calls[j].answer.exc
             ELSE last.outcome.kind = "return"

\* C7's case: the same read, invoked again, called the client again and
\* raised the client's error.
C7_Witness ==
    /\ last.op = Read
    /\ last.repeat
    /\ Len(last.calls) = 1
    /\ last.calls[1].answer.kind = "error"
    /\ last.outcome.kind = "raise"

\* C8: a client, once constructed, keeps its token and base URL, and a tool
\* list keeps its client; only a factory call constructs a client; a tool
\* invocation leaves clients and tool lists as they are and makes its calls
\* on the client of its own tool list, with that client's configuration.
C8_ToolsKeepTheirFactoryClient ==
    [][ /\ \A i \in 1..Len(clients) :
             i <= Len(clients') /\ clients'[i] = clients[i]
        /\ \A i \in 1..Len(toolsets) :
             i <= Len(toolsets') /\ toolsets'[i] = toolsets[i]
        /\ last'.op \in {Ingest, Read, Delete} =>
             /\ clients' = clients
             /\ toolsets' = toolsets
             /\ CallsUseFactoryConfig'
      ]_vars

\* C8's case: a tool of the first of two tool lists is invoked after both
\* environment variables it was made from were unset.
C8_Witness ==
    /\ Len(clients) = 2
    /\ clients[1] # clients[2]
    /\ last.op = Ingest
    /\ last.toolset = 1
    /\ Len(last.calls) = 1
    /\ last.calls[1].token = "tok-env"
    /\ last.calls[1].base_url = {"https://env.example"}
    /\ env["ALPHAHUMAN_API_KEY"] = {}
    /\ env["ALPHAHUMAN_BASE_URL"] = {}

\* the base URL by the precedence argument, environment, default, where an
\* empty string counts as absent
ByPrecedence(arg, e) ==
    IF arg # {} /\ arg # {""} THEN arg
    ELSE IF e["ALPHAHUMAN_BASE_URL"] # {} /\ e["ALPHAHUMAN_BASE_URL"] # {""}
         THEN e["ALPHAHUMAN_BASE_URL"]
         ELSE {DEFAULT_BASE_URL}

\* C9: the client a factory call constructs is configured with the base_url
\* argument if non-empty, else ALPHAHUMAN_BASE_URL if set and non-empty,
\* else DEFAULT_BASE_URL; get_tools resolves as make_memory_tools without a
\* base_url argument does.
C9_BaseUrlPrecedence ==
    [][ Len(clients') = Len(clients) + 1 =>
          LET cfg == clients'[Len(clients')]
          IN  /\ last'.op \in {"make_memory_tools", "get_tools"}
              /\ last'.op = "make_memory_tools" =>
                   cfg.base_url = ByPrecedence(last'.args.base_url, env)
              /\ last'.op = "get_tools" =>
                   cfg.base_url = ByPrecedence({}, env)
      ]_vars

\* C9's case: make_memory_tools was given an explicit token and an empty
\* base_url, and the client got the environment's URL.
C9_Witness ==
    /\ last.op = "make_memory_tools"
    /\ last.args.token = "tok-arg"
    /\ last.args.base_url = {""}
    /\ clients[toolsets[last.toolset].client].base_url = {"https://env.example"}
====
